---- MODULE Spec2Model ----
(***************************************************************************)
(* Model of the spellbook RV32I conformance harness.                       *)
(*                                                                         *)
(* Target side: the self-test program (test_rv32i.c in its two revisions,  *)
(* the seven-group one and the nine-group one), its three global counters  *)
(* and the ASSERT macro.  The processor under test is the environment: the *)
(* value an assertion observes is what that processor computed, so the     *)
(* outcome of every checked operation is an input of the model.            *)
(*                                                                         *)
(* Host side: the Makefile.  The toolchain probe that sets                 *)
(* TOOLCHAIN_PREFIX when make reads the file, and the recipe of            *)
(* verify-instructions, which greps the disassembly listing for every      *)
(* required mnemonic.  Text is a sequence of one-character strings, so     *)
(* that matching is computed character by character.                       *)
(***************************************************************************)
EXTENDS Integers, Sequences, FiniteSets, TLC

VARIABLES
    \* ---- target program (test_rv32i.c) ----
    registry,       \* which revision of the program runs
    computed,       \* what its ASSERT conditions evaluate to on RV32I
    pc,             \* "start" | "run" | "done": position in main()
    grp,            \* index in MainCalls(registry) of the group being run
    k,              \* ASSERT sites of the current group executed so far
    test_passed,    \* volatile uint32_t test_passed
    test_failed,    \* volatile uint32_t test_failed
    test_result,    \* volatile uint32_t test_result
    count,          \* test_branches' local  volatile int32_t count
    retval,         \* value returned by main(), -1 until it returns
    \* ---- history of the run (not program state) ----
    executed,       \* number of ASSERT sites executed so far
    anyFailed,      \* some ASSERT condition evaluated to false
    groupsRun,      \* the groups entered so far, in order
    faults,         \* checked operations that misbehaved so far
    brMiss,         \* first conditional increment of test_branches that
                    \* was not performed (0: none)
    brFailed,       \* ASSERT sites of test_branches that failed
    \* ---- Makefile: toolchain probe ----
    rpc,            \* "idle" | "parse" | "resolved"
    override,       \* TOOLCHAIN_PREFIX given by the caller, or Unset
    onPath,         \* commands that `command -v` finds
    homebrewBin,    \* regular files in /opt/homebrew/bin
    usrLocalBin,    \* regular files in /usr/local/bin
    TOOLCHAIN_PREFIX, \* the make variable, Unset until the file is read
    probe,          \* which branch of the probe produced it (history)
    \* ---- Makefile: verify-instructions ----
    vpc,            \* "idle" | "echo" | "loop" | "done"
    listing,        \* the lines of $(DUMP)
    required,       \* the word list of the for loop
    vidx,           \* index in required of the next $$insn
    missing,        \* shell variable  missing
    out,            \* lines printed by the recipe
    vexit,          \* exit status of the recipe, -1 while it runs
    \* ---- Makefile: one invocation of make after another ----
    bpc,            \* "idle" | "run": whether make is running
    goal,           \* the goal of the invocation, "none" before the first
    bstep,          \* index in PlanOf[goal] of the next target to consider
    mtime,          \* modification time of every file, 0: no such file
    clock,          \* the time of the latest write
    dumpText,       \* the lines of the file $(DUMP)
    bexit,          \* exit status of make, -1 while it runs
    \* ---- history of the invocations (not program state) ----
    invoked,        \* targets whose toolchain command was invoked, in
                    \* order, in the current invocation
    failedAt,       \* target whose recipe failed, "none" if none did
    invocations,    \* invocations of make started so far
    dumpFrom,       \* "none" | "ok" | "failed": how the objdump that
                    \* wrote $(DUMP) ended
    scannedFrom,    \* dumpFrom of the file the coverage check grepped
    \* ---- Makefile: make -j ----
    jobs,           \* number of job slots
    jstate,         \* target -> "waiting" | "running" | "done" | "failed"
    \* ---- Makefile: -march ----
    apc,            \* "idle" | "parse" | "done"
    ARCH,           \* the make variable ARCH
    ISA_EXTENSIONS, \* the make variable ISA_EXTENSIONS
    march           \* the text after -march= in CFLAGS

runVars == <<registry, computed, pc, grp, k, test_passed, test_failed, test_result,
             count, retval, executed, anyFailed, groupsRun, faults, brMiss,
             brFailed>>

resolveVars == <<rpc, override, onPath, homebrewBin, usrLocalBin,
                 TOOLCHAIN_PREFIX, probe>>

verifyVars == <<vpc, listing, required, vidx, missing, out, vexit>>

buildVars == <<bpc, goal, bstep, mtime, clock, dumpText, bexit, invoked,
               failedAt, invocations, dumpFrom, scannedFrom>>

jobVars == <<jobs, jstate>>

archVars == <<apc, ARCH, ISA_EXTENSIONS, march>>

makeVars == <<buildVars, jobVars, archVars>>

vars == <<runVars, resolveVars, verifyVars, makeVars>>

(***************************************************************************)
(* The parts of the state a specification is not about stay as they are    *)
(* before that part of the harness runs.                                   *)
(***************************************************************************)

\* a make variable that has no value
Unset == "<unset>"

RunIdle ==
    /\ registry = "part_003"
    /\ computed = << >>
    /\ pc = "start"
    /\ grp = 1
    /\ k = 0
    /\ test_passed = 0
    /\ test_failed = 0
    /\ test_result = 0
    /\ count = 0
    /\ retval = -1
    /\ executed = 0
    /\ anyFailed = FALSE
    /\ groupsRun = << >>
    /\ faults = 0
    /\ brMiss = 0
    /\ brFailed = 0

ResolveIdle ==
    /\ rpc = "idle"
    /\ override = Unset
    /\ onPath = {}
    /\ homebrewBin = {}
    /\ usrLocalBin = {}
    /\ TOOLCHAIN_PREFIX = Unset
    /\ probe = "none"

VerifyIdle ==
    /\ vpc = "idle"
    /\ listing = << >>
    /\ required = << >>
    /\ vidx = 1
    /\ missing = 0
    /\ out = << >>
    /\ vexit = -1

BuildIdle ==
    /\ bpc = "idle"
    /\ goal = "none"
    /\ bstep = 1
    /\ mtime = << >>
    /\ clock = 0
    /\ dumpText = << >>
    /\ bexit = -1
    /\ invoked = << >>
    /\ failedAt = "none"
    /\ invocations = 0
    /\ dumpFrom = "none"
    /\ scannedFrom = "none"

JobsIdle ==
    /\ jobs = 0
    /\ jstate = << >>

ArchIdle ==
    /\ apc = "idle"
    /\ ARCH = << >>
    /\ ISA_EXTENSIONS = << >>
    /\ march = << >>

(***************************************************************************)
(* The program text.                                                       *)
(***************************************************************************)

Registries == {"part_003", "test_rv32i"}

\* main() with the test_memory() call of test_rv32i.c not commented out
MainCalls_MemoryEnabled(reg) ==
    IF reg = "part_003"
    THEN << "test_arithmetic", "test_memory", "test_explicit_instructions",
            "test_branches", "test_loops", "test_functions",
            "test_immediates", "test_upper_immediates", "test_jumps" >>
    ELSE << "test_arithmetic", "test_memory",
            "test_branches", "test_loops", "test_functions",
            "test_immediates", "test_upper_immediates", "test_jumps" >>

\* main() calling test_loops before test_branches
MainCalls_Swapped(reg) ==
    IF reg = "part_003"
    THEN << "test_arithmetic", "test_memory", "test_explicit_instructions",
            "test_loops", "test_branches", "test_functions",
            "test_immediates", "test_upper_immediates", "test_jumps" >>
    ELSE << "test_arithmetic",
            "test_loops", "test_branches", "test_functions",
            "test_immediates", "test_upper_immediates", "test_jumps" >>

\* main(): the test groups in call order
MainCalls(reg) ==
    IF reg = "part_003"
    THEN << "test_arithmetic", "test_memory", "test_explicit_instructions",
            "test_branches", "test_loops", "test_functions",
            "test_immediates", "test_upper_immediates", "test_jumps" >>
    ELSE << "test_arithmetic", \* test_memory() is commented out
            "test_branches", "test_loops", "test_functions",
            "test_immediates", "test_upper_immediates", "test_jumps" >>

\* the ASSERT sites of each group, by their test_name, in program order
GroupAsserts(reg, g) ==
    CASE g = "test_arithmetic" ->
           IF reg = "part_003"
           THEN << "ADD", "SUB", "AND", "OR", "XOR", "SLLI", "SRLI", "SRL",
                   "SRAI", "SLT", "SLT", "SLTU" >>
           ELSE << "ADD", "SUB", "AND", "OR", "XOR", "SLL", "SRL", "SRA",
                   "SLT", "SLT", "SLTU" >>
      [] g = "test_memory" ->
           << "LW", "SW", "LB sign extend", "LBU zero extend",
              "LH sign extend", "LHU zero extend" >>
      [] g = "test_explicit_instructions" ->
           IF reg = "part_003"
           THEN << "LB", "LH", "SB", "SH", "SRL", "SLL", "SRA" >>
           ELSE << >>
      [] g = "test_branches" ->
           << "BEQ", "BNE", "BLT", "BGE", "BLTU", "BGEU" >>
      [] g = "test_loops" ->
           << "for loop", "while loop" >>
      [] g = "test_functions" ->
           << "function call", "recursive function" >>
      [] g = "test_immediates" ->
           << "ADDI", "ANDI", "ORI", "XORI", "SLTI", "SLTI", "SLTIU" >>
      [] g = "test_upper_immediates" ->
           IF reg = "part_003"
           THEN << "LUI", "LUI large", "AUIPC" >>
           ELSE << "LUI", "upper immediate" >>
      [] g = "test_jumps" ->
           IF reg = "part_003"
           THEN << "JAL", "JALR" >>
           ELSE << "JAL/JALR" >>

\* the values test_branches compares count with: ASSERT(count == 1) .. (count == 6)
BranchExpected == << 1, 2, 3, 4, 5, 6 >>

\* ASSERT with its failure branch not counting the failure
ASSERT_NoFailCount(condition, L) ==
    IF condition
    THEN [L EXCEPT !.passed = L.passed + 1]
    ELSE [L EXCEPT !.result = 1]

\* ASSERT with its failure branch not raising the status
ASSERT_NoStatus(condition, L) ==
    IF condition
    THEN [L EXCEPT !.passed = L.passed + 1]
    ELSE [L EXCEPT !.failed = L.failed + 1]

\* ASSERT that writes the status on both branches
ASSERT_ClearsStatus(condition, L) ==
    IF condition
    THEN [L EXCEPT !.passed = L.passed + 1, !.result = 0]
    ELSE [L EXCEPT !.failed = L.failed + 1, !.result = 1]

\* #define ASSERT(condition, test_name): L is the three counters.  They are
\* uint32_t; a run executes at most 47 sites, so no increment wraps.
ASSERT(condition, L) ==
    IF condition
    THEN [L EXCEPT !.passed = L.passed + 1]
    ELSE [L EXCEPT !.failed = L.failed + 1, !.result = 1]

\* if (...) { count++; } with the increment performed whatever the branch does
BranchCount_Always(c, taken) == c + 1

\* if (<branch condition>) { count++; }: taken is what the processor's branch did
BranchCount(c, taken) == IF taken THEN c + 1 ELSE c

(***************************************************************************)
(* Makefile: text and matching.                                            *)
(***************************************************************************)

\* the characters of a word in grep's sense (\b is the edge of a run of
\* these): letters of either case, digits and the underscore
WordChars ==
    { "a", "b", "c", "d", "e", "f", "g", "h", "i", "j", "k", "l", "m",
      "n", "o", "p", "q", "r", "s", "t", "u", "v", "w", "x", "y", "z",
      "A", "B", "C", "D", "E", "F", "G", "H", "I", "J", "K", "L", "M",
      "N", "O", "P", "Q", "R", "S", "T", "U", "V", "W", "X", "Y", "Z",
      "0", "1", "2", "3", "4", "5", "6", "7", "8", "9", "_" }

IsWordChar(c) == c \in WordChars

\* the pattern matched at position i of the line, with no \b on either side
LineMatches_NoBoundary(line, insn) ==
    \E i \in 1..(Len(line) - Len(insn) + 1) :
        SubSeq(line, i, i + Len(insn) - 1) = insn

\* grep -E "\b$$insn\b" on one line: insn at some position i, with a word
\* edge before its first and after its last character
LineMatches(line, insn) ==
    \E i \in 1..(Len(line) - Len(insn) + 1) :
        /\ SubSeq(line, i, i + Len(insn) - 1) = insn
        /\ (i = 1 \/ ~IsWordChar(line[i - 1]))
        /\ (i + Len(insn) > Len(line) \/ ~IsWordChar(line[i + Len(insn)]))

\* grep -q PATTERN $(DUMP): status 0 exactly when some line matches
Grep(file, insn) ==
    \E n \in 1..Len(file) : LineMatches(file[n], insn)

\* the word list of the for loop of verify-instructions
RV32I_INSNS ==
    << << "l", "b" >>, << "l", "h" >>, << "l", "w" >>,
       << "l", "b", "u" >>, << "l", "h", "u" >>, << "s", "b" >>,
       << "s", "h" >>, << "s", "w" >>, << "a", "d", "d" >>,
       << "a", "d", "d", "i" >>, << "s", "u", "b" >>,
       << "a", "n", "d" >>, << "a", "n", "d", "i" >>, << "o", "r" >>,
       << "o", "r", "i" >>, << "x", "o", "r" >>,
       << "x", "o", "r", "i" >>, << "s", "l", "l" >>,
       << "s", "l", "l", "i" >>, << "s", "r", "l" >>,
       << "s", "r", "l", "i" >>, << "s", "r", "a" >>,
       << "s", "r", "a", "i" >>, << "s", "l", "t" >>,
       << "s", "l", "t", "i" >>, << "s", "l", "t", "u" >>,
       << "s", "l", "t", "i", "u" >>, << "l", "u", "i" >>,
       << "a", "u", "i", "p", "c" >>, << "j", "a", "l" >>,
       << "j", "a", "l", "r" >>, << "b", "e", "q" >>,
       << "b", "n", "e" >>, << "b", "l", "t" >>, << "b", "g", "e" >>,
       << "b", "l", "t", "u" >>, << "b", "g", "e", "u" >> >>

\* the loop body reporting the first missing mnemonic only
LoopBody_FirstOnly(file, insn, st) ==
    IF ~Grep(file, insn) /\ st.missing = 0
    THEN [missing |-> st.missing + 1,
          out |-> Append(st.out, [text |-> "MISSING", insn |-> insn, n |-> 0])]
    ELSE st

\* the loop body printing each MISSING line before the earlier ones
LoopBody_Prepend(file, insn, st) ==
    IF ~Grep(file, insn)
    THEN [missing |-> st.missing + 1,
          out |-> <<[text |-> "MISSING", insn |-> insn, n |-> 0]>> \o st.out]
    ELSE st

\* if ! grep -qE "\b$$insn\b" $(DUMP); then
\*   echo "  MISSING: $$insn"; missing=$$((missing+1)); fi
LoopBody(file, insn, st) ==
    IF ~Grep(file, insn)
    THEN [missing |-> st.missing + 1,
          out |-> Append(st.out, [text |-> "MISSING", insn |-> insn, n |-> 0])]
    ELSE st

\* the final test without its exit 1
Verdict_NoExit(st) ==
    IF st.missing = 0
    THEN [out |-> Append(st.out, [text |-> "ALL_PRESENT", insn |-> << >>, n |-> 0]),
          status |-> 0]
    ELSE [out |-> Append(st.out, [text |-> "NOT_FOUND", insn |-> << >>,
                                  n |-> st.missing]),
          status |-> 0]

\* if [ $$missing -eq 0 ]; then echo "  All RV32I instructions present in dump.";
\* else echo "  $$missing instruction(s) not found."; exit 1; fi
Verdict(st) ==
    IF st.missing = 0
    THEN [out |-> Append(st.out, [text |-> "ALL_PRESENT", insn |-> << >>, n |-> 0]),
          status |-> 0]
    ELSE [out |-> Append(st.out, [text |-> "NOT_FOUND", insn |-> << >>,
                                  n |-> st.missing]),
          status |-> 1]

(***************************************************************************)
(* Inputs of verify-instructions: listings and word lists.                 *)
(***************************************************************************)

\* longest listing, in lines
MaxLines == 2

\* longest word list other than the Makefile's own
MaxRequired == 3

Mn_add == << "a", "d", "d" >>
Mn_sub == << "s", "u", "b" >>
Mn_jal == << "j", "a", "l" >>
Mn_sll == << "s", "l", "l" >>

\* add a0,a0,a1
Line_add ==
    << "a", "d", "d", "\t", "a", "0", ",", "a", "0", ",", "a", "1" >>

\* sub a0,a0,a1
Line_sub ==
    << "s", "u", "b", "\t", "a", "0", ",", "a", "0", ",", "a", "1" >>

\* jal ra,1c <main>
Line_jal ==
    << "j", "a", "l", "\t", "r", "a", ",", "1", "c", " ", "<", "m", "a",
       "i", "n", ">" >>

\* sll a5,a5,a4
Line_sll ==
    << "s", "l", "l", "\t", "a", "5", ",", "a", "5", ",", "a", "4" >>

\* Xsll a5,a5,a4 : the mnemonic with an upper-case letter before it
Line_Xsll ==
    << "X", "s", "l", "l", "\t", "a", "5", ",", "a", "5", ",", "a", "4" >>

\* slli a0,a1,0x3
Line_slli ==
    << "s", "l", "l", "i", "\t", "a", "0", ",", "a", "1", ",", "0", "x",
       "3" >>

\* addi sp,sp,-16 ; jalr ra
Line_addi_jalr ==
    << "a", "d", "d", "i", "\t", "s", "p", ",", "s", "p", ",", "-", "1",
       "6", " ", ";", " ", "j", "a", "l", "r", "\t", "r", "a" >>

\* lbu a5,0(a0) <add_function+0x4>
Line_lbu_add_function ==
    << "l", "b", "u", "\t", "a", "5", ",", "0", "(", "a", "0", ")", " ",
       "<", "a", "d", "d", "_", "f", "u", "n", "c", "t", "i", "o", "n",
       "+", "0", "x", "4", ">" >>

\* a line naming every mnemonic of RV32I_INSNS
Line_all ==
    << "l", "b", " ", "l", "h", " ", "l", "w", " ", "l", "b", "u", " ",
       "l", "h", "u", " ", "s", "b", " ", "s", "h", " ", "s", "w", " ",
       "a", "d", "d", " ", "a", "d", "d", "i", " ", "s", "u", "b", " ",
       "a", "n", "d", " ", "a", "n", "d", "i", " ", "o", "r", " ", "o",
       "r", "i", " ", "x", "o", "r", " ", "x", "o", "r", "i", " ", "s",
       "l", "l", " ", "s", "l", "l", "i", " ", "s", "r", "l", " ", "s",
       "r", "l", "i", " ", "s", "r", "a", " ", "s", "r", "a", "i", " ",
       "s", "l", "t", " ", "s", "l", "t", "i", " ", "s", "l", "t", "u",
       " ", "s", "l", "t", "i", "u", " ", "l", "u", "i", " ", "a", "u",
       "i", "p", "c", " ", "j", "a", "l", " ", "j", "a", "l", "r", " ",
       "b", "e", "q", " ", "b", "n", "e", " ", "b", "l", "t", " ", "b",
       "g", "e", " ", "b", "l", "t", "u", " ", "b", "g", "e", "u" >>

\* a line naming every mnemonic of RV32I_INSNS but sub
Line_all_but_sub ==
    << "l", "b", " ", "l", "h", " ", "l", "w", " ", "l", "b", "u", " ",
       "l", "h", "u", " ", "s", "b", " ", "s", "h", " ", "s", "w", " ",
       "a", "d", "d", " ", "a", "d", "d", "i", " ", "a", "n", "d", " ",
       "a", "n", "d", "i", " ", "o", "r", " ", "o", "r", "i", " ", "x",
       "o", "r", " ", "x", "o", "r", "i", " ", "s", "l", "l", " ", "s",
       "l", "l", "i", " ", "s", "r", "l", " ", "s", "r", "l", "i", " ",
       "s", "r", "a", " ", "s", "r", "a", "i", " ", "s", "l", "t", " ",
       "s", "l", "t", "i", " ", "s", "l", "t", "u", " ", "s", "l", "t",
       "i", "u", " ", "l", "u", "i", " ", "a", "u", "i", "p", "c", " ",
       "j", "a", "l", " ", "j", "a", "l", "r", " ", "b", "e", "q", " ",
       "b", "n", "e", " ", "b", "l", "t", " ", "b", "g", "e", " ", "b",
       "l", "t", "u", " ", "b", "g", "e", "u" >>

LinePool ==
    { Line_add, Line_sub, Line_jal, Line_sll, Line_Xsll, Line_slli,
      Line_addi_jalr, Line_lbu_add_function, Line_all, Line_all_but_sub }

Listings ==
    UNION { [1..n -> LinePool] : n \in 0..MaxLines }

NoDuplicates(seq) ==
    \A i, j \in 1..Len(seq) : i # j => seq[i] # seq[j]

\* the Makefile's word list, and every duplicate-free list of up to
\* MaxRequired of four of its mnemonics
RequiredLists ==
    { RV32I_INSNS } \cup
    { r \in UNION { [1..n -> { Mn_add, Mn_sub, Mn_jal, Mn_sll }] :
                    n \in 1..MaxRequired } : NoDuplicates(r) }

(***************************************************************************)
(* Makefile: the recipe of verify-instructions.                            *)
(***************************************************************************)

InitVerify ==
    /\ RunIdle
    /\ ResolveIdle
    /\ BuildIdle
    /\ JobsIdle
    /\ ArchIdle
    /\ vpc = "echo"
    /\ listing \in Listings
    /\ required \in RequiredLists
    /\ vidx = 1
    /\ missing = 0
    /\ out = << >>
    /\ vexit = -1

\* @echo "Checking RV32I instruction coverage..."  and  missing=0
verify_echo ==
    /\ vpc = "echo"
    /\ vpc' = "loop"
    /\ out' = Append(out, [text |-> "CHECKING", insn |-> << >>, n |-> 0])
    /\ missing' = 0
    /\ vidx' = 1
    /\ UNCHANGED <<listing, required, vexit>>
    /\ UNCHANGED <<runVars, resolveVars, makeVars>>

\* one iteration of  for insn in ...; do ... done
verify_loop ==
    /\ vpc = "loop"
    /\ vidx <= Len(required)
    /\ LET st == LoopBody(listing, required[vidx],
                          [missing |-> missing, out |-> out])
       IN /\ missing' = st.missing
          /\ out' = st.out
    /\ vidx' = vidx + 1
    /\ UNCHANGED <<vpc, listing, required, vexit>>
    /\ UNCHANGED <<runVars, resolveVars, makeVars>>

\* the test of $$missing after the loop, ending the recipe
verify_exit ==
    /\ vpc = "loop"
    /\ vidx > Len(required)
    /\ LET v == Verdict([missing |-> missing, out |-> out])
       IN /\ out' = v.out
          /\ vexit' = v.status
    /\ vpc' = "done"
    /\ UNCHANGED <<listing, required, vidx, missing>>
    /\ UNCHANGED <<runVars, resolveVars, makeVars>>

NextVerify ==
    \/ verify_echo
    \/ verify_loop
    \/ verify_exit

SpecVerify == InitVerify /\ [][NextVerify]_vars

(***************************************************************************)
(* Makefile: TOOLCHAIN_PREFIX.                                             *)
(***************************************************************************)

\* the prefixes the probe knows, in the order it tests them
Candidates ==
    << "riscv64-unknown-elf-", "riscv32-unknown-elf-",
       "riscv64-linux-gnu-", "riscv32-linux-gnu-" >>

\* $(TOOLCHAIN_PREFIX)gcc
GccOf(prefix) == prefix \o "gcc"

CandidateGccs == { GccOf(Candidates[i]) : i \in 1..Len(Candidates) }

\* the probe testing riscv32-unknown-elf-gcc before riscv64-unknown-elf-gcc
ProbeShell_32First(path, homebrew, usrlocal) ==
    IF "riscv32-unknown-elf-gcc" \in path
    THEN [prefix |-> "riscv32-unknown-elf-", probe |-> "path"]
    ELSE IF "riscv64-unknown-elf-gcc" \in path
    THEN [prefix |-> "riscv64-unknown-elf-", probe |-> "path"]
    ELSE IF "riscv64-linux-gnu-gcc" \in path
    THEN [prefix |-> "riscv64-linux-gnu-", probe |-> "path"]
    ELSE IF "riscv32-linux-gnu-gcc" \in path
    THEN [prefix |-> "riscv32-linux-gnu-", probe |-> "path"]
    ELSE IF "riscv64-unknown-elf-gcc" \in homebrew
    THEN [prefix |-> "riscv64-unknown-elf-", probe |-> "homebrew"]
    ELSE IF "riscv64-unknown-elf-gcc" \in usrlocal
    THEN [prefix |-> "riscv64-unknown-elf-", probe |-> "usrlocal"]
    ELSE [prefix |-> "riscv64-unknown-elf-", probe |-> "fallback"]

\* the $(shell if command -v ...; elif ...; else ...; fi) of TOOLCHAIN_PREFIX
ProbeShell(path, homebrew, usrlocal) ==
    IF "riscv64-unknown-elf-gcc" \in path
    THEN [prefix |-> "riscv64-unknown-elf-", probe |-> "path"]
    ELSE IF "riscv32-unknown-elf-gcc" \in path
    THEN [prefix |-> "riscv32-unknown-elf-", probe |-> "path"]
    ELSE IF "riscv64-linux-gnu-gcc" \in path
    THEN [prefix |-> "riscv64-linux-gnu-", probe |-> "path"]
    ELSE IF "riscv32-linux-gnu-gcc" \in path
    THEN [prefix |-> "riscv32-linux-gnu-", probe |-> "path"]
    ELSE IF "riscv64-unknown-elf-gcc" \in homebrew
    THEN [prefix |-> "riscv64-unknown-elf-", probe |-> "homebrew"]
    ELSE IF "riscv64-unknown-elf-gcc" \in usrlocal
    THEN [prefix |-> "riscv64-unknown-elf-", probe |-> "usrlocal"]
    ELSE [prefix |-> "riscv64-unknown-elf-", probe |-> "fallback"]

\* TOOLCHAIN_PREFIX ?= $(shell ...): the shell runs only if the variable
\* has no value yet
ConditionalAssign(given, path, homebrew, usrlocal) ==
    IF given # Unset
    THEN [prefix |-> given, probe |-> "override"]
    ELSE ProbeShell(path, homebrew, usrlocal)

\* values a caller gives TOOLCHAIN_PREFIX on the command line
Overrides == { Unset, "riscv32-unknown-elf-", "riscv64-linux-gnu-", "my-riscv-" }

InitResolve ==
    /\ RunIdle
    /\ VerifyIdle
    /\ BuildIdle
    /\ JobsIdle
    /\ ArchIdle
    /\ rpc = "parse"
    /\ override \in Overrides
    /\ onPath \in SUBSET CandidateGccs
    /\ homebrewBin \in SUBSET CandidateGccs
    /\ usrLocalBin \in SUBSET CandidateGccs
    /\ TOOLCHAIN_PREFIX = Unset
    /\ probe = "none"

\* make reads the Makefile and evaluates line 7
resolve_toolchain ==
    /\ rpc = "parse"
    /\ LET r == ConditionalAssign(override, onPath, homebrewBin, usrLocalBin)
       IN /\ TOOLCHAIN_PREFIX' = r.prefix
          /\ probe' = r.probe
    /\ rpc' = "resolved"
    /\ UNCHANGED <<override, onPath, homebrewBin, usrLocalBin>>
    /\ UNCHANGED <<runVars, verifyVars, makeVars>>

NextResolve == resolve_toolchain

SpecResolve == InitResolve /\ [][NextResolve]_vars

(***************************************************************************)
(* Makefile: files, rules and the order in which make visits them.         *)
(***************************************************************************)

SRCS == << "test_rv32i.c" >>
ASMS == << "boot.S" >>
\* $(SRCS:.c=.o) $(ASMS:.S=.o)
OBJS == << "test_rv32i.o", "boot.o" >>
TARGET == "test_rv32i.elf"
BIN == "test_rv32i.bin"
DUMP == "test_rv32i.dump"

\* files the repository ships; make has no rule for them
Sources == { "test_rv32i.c", "boot.S", "link.ld" }

\* files the rules write
Artifacts == { "test_rv32i.o", "boot.o", TARGET, BIN, DUMP }

\* the goals a caller can name: all is the default
Goals ==
    { "all", "verify-instructions", "clean", "config", "asm", "size", "help" }

\* the rule of $(DUMP) without its prerequisite
Prereqs_DumpAlone(t) ==
    CASE t = "all" -> << "check-toolchain", TARGET, BIN, DUMP >>
      [] t = TARGET -> OBJS \o << "link.ld" >>
      [] t = BIN -> << TARGET >>
      [] t = DUMP -> << >>
      [] t = "test_rv32i.o" -> SRCS
      [] t = "boot.o" -> ASMS
      [] t = "verify-instructions" -> << DUMP >>
      [] t = "asm" -> << TARGET >>
      [] t = "size" -> << TARGET >>
      [] OTHER -> << >>

\* the prerequisite list of every rule, as written
Prereqs(t) ==
    CASE t = "all" -> << "check-toolchain", TARGET, BIN, DUMP >>
      [] t = TARGET -> OBJS \o << "link.ld" >>
      [] t = BIN -> << TARGET >>
      [] t = DUMP -> << TARGET >>
      [] t = "test_rv32i.o" -> SRCS
      [] t = "boot.o" -> ASMS
      [] t = "verify-instructions" -> << DUMP >>
      [] t = "asm" -> << TARGET >>
      [] t = "size" -> << TARGET >>
      [] OTHER -> << >>

Range(seq) == { seq[i] : i \in DOMAIN seq }

\* make visits the prerequisites of a target from left to right, each
\* before the target itself, and a target once
RECURSIVE Visit(_, _)
Visit(ts, acc) ==
    IF ts = << >>
    THEN acc
    ELSE IF Head(ts) \in Range(acc)
         THEN Visit(Tail(ts), acc)
         ELSE Visit(Tail(ts), Append(Visit(Prereqs(Head(ts)), acc), Head(ts)))

\* the order for every goal, worked out once
PlanOf == [g \in Goals \cup { "none" } |-> Visit(<< g >>, << >>)]

\* whether make runs the recipe of t: check-toolchain and the goals other
\* than all name no file, so their recipes always run (all has none); a
\* file is remade when it is absent or older than one of its prerequisites
OutOfDate(t, mt) ==
    \/ t \in { "check-toolchain" } \cup (Goals \ { "all" })
    \/ /\ t \in Artifacts
       /\ \/ mt[t] = 0
          \/ \E i \in DOMAIN Prereqs(t) : mt[Prereqs(t)[i]] > mt[t]

\* CC = $(TOOLCHAIN_PREFIX)gcc
CC(prefix) == GccOf(prefix)

\* CHECK_TOOLCHAIN testing only that $(CC) is not the empty word
CHECK_TOOLCHAIN_NoTest(cc, path, homebrew, usrlocal) ==
    IF cc = ""
    THEN 1
    ELSE 0

\* CHECK_TOOLCHAIN: exit status of
\* if ! command -v $(CC) && ! [ -f /opt/homebrew/bin/$(CC) ] &&
\*    ! [ -f /usr/local/bin/$(CC) ]; then echo "ERROR: ..."; exit 1; fi
CHECK_TOOLCHAIN(cc, path, homebrew, usrlocal) ==
    IF cc \notin path /\ cc \notin homebrew /\ cc \notin usrlocal
    THEN 1
    ELSE 0

\* the shell runs a recipe line  $(CC) ...  only if it finds the command
\* on PATH; the three tools of a toolchain are installed together
Runnable(prefix, path) == CC(prefix) \in path

\* make going on to the next target after a failed recipe
OnError_KeepGoing(t, i) ==
    [bpc |-> "run", failedAt |-> t, bexit |-> -1, bstep |-> i + 1]

\* a recipe line that exits nonzero (none is prefixed with -): make stops
\* and exits with status 2
OnError(t, i) ==
    [bpc |-> "idle", failedAt |-> t, bexit |-> 2, bstep |-> i]

\* the recipe of verify-instructions, from its first echo to its exit
RECURSIVE ForLoop(_, _, _, _)
ForLoop(file, req, i, st) ==
    IF i > Len(req)
    THEN st
    ELSE ForLoop(file, req, i + 1, LoopBody(file, req[i], st))

VerifyRecipe(file, req) ==
    LET st0 == [missing |-> 0,
                out |-> << [text |-> "CHECKING", insn |-> << >>, n |-> 0] >>]
        st == ForLoop(file, req, 1, st0)
        v == Verdict(st)
    IN [missing |-> st.missing, out |-> v.out, status |-> v.status]

(***************************************************************************)
(* Makefile: make run serially, one invocation after another, on a tree    *)
(* that starts without artifacts.  Every recipe is one step; whether a     *)
(* tool that starts succeeds is an input.                                  *)
(***************************************************************************)

\* invocations of make in one behaviour
MaxInvocations == 2

\* the compilers installed in the modelled environments
BuildGccs == { "riscv64-unknown-elf-gcc", "my-riscv-gcc" }

\* what the caller gives TOOLCHAIN_PREFIX: nothing, or a prefix the probe
\* does not know
BuildOverrides == { Unset, "my-riscv-" }

\* the listing objdump writes when it succeeds
CompleteDumps == { << Line_all >>, << Line_all_but_sub >> }

\* what is in $(DUMP) when objdump fails: the redirection has created the
\* file, and the tool has written nothing or part of its output; the part
\* may stop short of some mnemonics or already hold every one of them
PartialDumps == { << >>, << Line_add >>, << Line_all >> }

\* the outcome of the coverage check on every text $(DUMP) can hold,
\* worked out once
CheckOf ==
    [d \in CompleteDumps \cup PartialDumps |-> VerifyRecipe(d, RV32I_INSNS)]

InitBuild ==
    /\ RunIdle
    /\ VerifyIdle
    /\ JobsIdle
    /\ ArchIdle
    /\ rpc = "idle"
    /\ override = Unset
    /\ onPath = {}
    /\ homebrewBin \in SUBSET { "riscv64-unknown-elf-gcc" }
    /\ usrLocalBin = {}
    /\ TOOLCHAIN_PREFIX = Unset
    /\ probe = "none"
    /\ bpc = "idle"
    /\ goal = "none"
    /\ bstep = 1
    /\ mtime = [f \in Sources \cup Artifacts |->
                   IF f \in Sources THEN 1 ELSE 0]
    /\ clock = 1
    /\ dumpText = << >>
    /\ bexit = -1
    /\ invoked = << >>
    /\ failedAt = "none"
    /\ invocations = 0
    /\ dumpFrom = "none"
    /\ scannedFrom = "none"

\* indices of the targets make has still to remake in this invocation
Pending == { j \in bstep..Len(PlanOf[goal]) : OutOfDate(PlanOf[goal][j], mtime) }

NextIndex == CHOOSE j \in Pending : \A j2 \in Pending : j <= j2

Running(t) ==
    /\ bpc = "run"
    /\ Pending # {}
    /\ PlanOf[goal][NextIndex] = t

Apply(r) ==
    /\ bpc' = r.bpc
    /\ failedAt' = r.failedAt
    /\ bexit' = r.bexit
    /\ bstep' = r.bstep

Proceed == [bpc |-> "run", failedAt |-> failedAt, bexit |-> bexit,
            bstep |-> NextIndex + 1]

\* the caller runs  make  or  make <goal> , with or without
\* TOOLCHAIN_PREFIX=... on the command line and with the PATH of that
\* moment; make reads the Makefile, which sets TOOLCHAIN_PREFIX
make_start ==
    /\ bpc = "idle"
    /\ invocations < MaxInvocations
    /\ \E g \in Goals, given \in BuildOverrides, path \in SUBSET BuildGccs :
        /\ goal' = g
        /\ override' = given
        /\ onPath' = path
        /\ LET r == ConditionalAssign(given, path, homebrewBin, usrLocalBin)
           IN /\ TOOLCHAIN_PREFIX' = r.prefix
              /\ probe' = r.probe
    /\ rpc' = "resolved"
    /\ bpc' = "run"
    /\ bstep' = 1
    /\ bexit' = -1
    /\ invoked' = << >>
    /\ failedAt' = "none"
    /\ scannedFrom' = "none"
    /\ invocations' = invocations + 1
    /\ UNCHANGED <<mtime, clock, dumpText, dumpFrom>>
    /\ UNCHANGED <<homebrewBin, usrLocalBin>>
    /\ UNCHANGED <<runVars, verifyVars, jobVars, archVars>>

\* check-toolchain: $(CHECK_TOOLCHAIN)
check_toolchain ==
    /\ Running("check-toolchain")
    /\ IF CHECK_TOOLCHAIN(CC(TOOLCHAIN_PREFIX), onPath, homebrewBin,
                          usrLocalBin) = 0
       THEN Apply(Proceed)
       ELSE Apply(OnError("check-toolchain", NextIndex))
    /\ UNCHANGED <<goal, mtime, clock, dumpText, invoked, invocations,
                   dumpFrom, scannedFrom>>
    /\ UNCHANGED <<runVars, resolveVars, verifyVars, jobVars, archVars>>

\* a recipe  tool ... -o $@ : the tool writes its output file when it
\* succeeds.  When the shell cannot start the tool, $@ stays as it was.  A
\* tool that stops removes its output; the compile of an object does so
\* when the assembler stops, and leaves the object of an earlier build
\* untouched when the preprocessor or the compiler proper stops.  make
\* (no .DELETE_ON_ERROR) removes nothing itself.
ToolStep(t) ==
    /\ invoked' = Append(invoked, t)
    /\ \E ok \in BOOLEAN :
        /\ ok => Runnable(TOOLCHAIN_PREFIX, onPath)
        /\ IF ok
           THEN /\ mtime' = [mtime EXCEPT ![t] = clock + 1]
                /\ clock' = clock + 1
                /\ Apply(Proceed)
           ELSE /\ \E left \in
                       IF ~Runnable(TOOLCHAIN_PREFIX, onPath)
                       THEN { mtime[t] }
                       ELSE IF t \in Range(OBJS)
                            THEN { 0, mtime[t] }
                            ELSE { 0 } :
                       mtime' = [mtime EXCEPT ![t] = left]
                /\ clock' = clock
                /\ Apply(OnError(t, NextIndex))
    /\ UNCHANGED <<goal, dumpText, invocations, dumpFrom, scannedFrom>>
    /\ UNCHANGED <<runVars, resolveVars, verifyVars, jobVars, archVars>>

\* %.o: %.c  and  %.o: %.S :  $(CC) $(CFLAGS) -c $< -o $@
compile ==
    \E i \in DOMAIN OBJS :
        /\ Running(OBJS[i])
        /\ ToolStep(OBJS[i])

\* $(TARGET): $(CC) $(CFLAGS) $(LDFLAGS) $(OBJS) -lgcc -o $@
link ==
    /\ Running(TARGET)
    /\ ToolStep(TARGET)

\* $(BIN): $(OBJCOPY) -O binary $< $@ , then an echo that cannot fail
objcopy ==
    /\ Running(BIN)
    /\ ToolStep(BIN)

\* $(DUMP): $(OBJDUMP) -d -S $< > $@ : the shell creates or truncates $@
\* before it starts the tool, whatever the tool then does
objdump ==
    /\ Running(DUMP)
    /\ invoked' = Append(invoked, DUMP)
    /\ mtime' = [mtime EXCEPT ![DUMP] = clock + 1]
    /\ clock' = clock + 1
    /\ \E ok \in BOOLEAN :
        /\ ok => Runnable(TOOLCHAIN_PREFIX, onPath)
        /\ IF ok
           THEN /\ dumpText' \in CompleteDumps
                /\ dumpFrom' = "ok"
                /\ Apply(Proceed)
           ELSE /\ dumpText' \in
                       IF Runnable(TOOLCHAIN_PREFIX, onPath)
                       THEN PartialDumps ELSE { << >> }
                /\ dumpFrom' = "failed"
                /\ Apply(OnError(DUMP, NextIndex))
    /\ UNCHANGED <<goal, invocations, scannedFrom>>
    /\ UNCHANGED <<runVars, resolveVars, verifyVars, jobVars, archVars>>

\* verify-instructions: the recipe greps $(DUMP) as it is on disk
verify_instructions ==
    /\ Running("verify-instructions")
    /\ LET r == CheckOf[dumpText]
       IN /\ listing' = dumpText
          /\ required' = RV32I_INSNS
          /\ vidx' = Len(RV32I_INSNS) + 1
          /\ missing' = r.missing
          /\ out' = r.out
          /\ vexit' = r.status
          /\ vpc' = "done"
          /\ IF r.status = 0
             THEN Apply(Proceed)
             ELSE Apply(OnError("verify-instructions", NextIndex))
    /\ scannedFrom' = dumpFrom
    /\ UNCHANGED <<goal, mtime, clock, dumpText, invoked, invocations,
                   dumpFrom>>
    /\ UNCHANGED <<runVars, resolveVars, jobVars, archVars>>

\* clean: rm -f $(OBJS) $(TARGET) $(BIN) $(DUMP) test_rv32i.map
clean ==
    /\ Running("clean")
    /\ mtime' = [f \in DOMAIN mtime |-> IF f \in Artifacts THEN 0 ELSE mtime[f]]
    /\ dumpText' = << >>
    /\ dumpFrom' = "none"
    /\ Apply(Proceed)
    /\ UNCHANGED <<goal, clock, invoked, invocations, scannedFrom>>
    /\ UNCHANGED <<runVars, resolveVars, verifyVars, jobVars, archVars>>

\* config: echo lines, then an if whose branch only echoes a warning
config ==
    /\ Running("config")
    /\ Apply(Proceed)
    /\ UNCHANGED <<goal, mtime, clock, dumpText, invoked, invocations,
                   dumpFrom, scannedFrom>>
    /\ UNCHANGED <<runVars, resolveVars, verifyVars, jobVars, archVars>>

\* asm: $(OBJDUMP) -d $(TARGET) | less : the status of a pipeline is that
\* of its last command, so what objdump does is not seen; whether less
\* ends with status 0 is an input
asm ==
    /\ Running("asm")
    /\ invoked' = Append(invoked, "asm")
    /\ \E less \in BOOLEAN :
           IF less
           THEN Apply(Proceed)
           ELSE Apply(OnError("asm", NextIndex))
    /\ UNCHANGED <<goal, mtime, clock, dumpText, invocations, dumpFrom,
                   scannedFrom>>
    /\ UNCHANGED <<runVars, resolveVars, verifyVars, jobVars, archVars>>

\* size: $(SIZE) $(TARGET)
size ==
    /\ Running("size")
    /\ invoked' = Append(invoked, "size")
    /\ \E ok \in BOOLEAN :
        /\ ok => Runnable(TOOLCHAIN_PREFIX, onPath)
        /\ IF ok
           THEN Apply(Proceed)
           ELSE Apply(OnError("size", NextIndex))
    /\ UNCHANGED <<goal, mtime, clock, dumpText, invocations, dumpFrom,
                   scannedFrom>>
    /\ UNCHANGED <<runVars, resolveVars, verifyVars, jobVars, archVars>>

\* help: echo lines
help ==
    /\ Running("help")
    /\ Apply(Proceed)
    /\ UNCHANGED <<goal, mtime, clock, dumpText, invoked, invocations,
                   dumpFrom, scannedFrom>>
    /\ UNCHANGED <<runVars, resolveVars, verifyVars, jobVars, archVars>>

\* nothing is left to remake: make exits with status 0
make_done ==
    /\ bpc = "run"
    /\ Pending = {}
    /\ bpc' = "idle"
    /\ bexit' = 0
    /\ UNCHANGED <<goal, bstep, mtime, clock, dumpText, invoked, failedAt,
                   invocations, dumpFrom, scannedFrom>>
    /\ UNCHANGED <<runVars, resolveVars, verifyVars, jobVars, archVars>>

\* between two invocations the developer edits test_rv32i.c
edit_source ==
    /\ bpc = "idle"
    /\ invocations \in 1..(MaxInvocations - 1)
    /\ mtime["test_rv32i.c"] < clock
    /\ mtime' = [mtime EXCEPT !["test_rv32i.c"] = clock + 1]
    /\ clock' = clock + 1
    /\ UNCHANGED <<bpc, goal, bstep, dumpText, bexit, invoked, failedAt,
                   invocations, dumpFrom, scannedFrom>>
    /\ UNCHANGED <<runVars, resolveVars, verifyVars, jobVars, archVars>>

NextBuild ==
    \/ make_start
    \/ check_toolchain
    \/ compile
    \/ link
    \/ objcopy
    \/ objdump
    \/ verify_instructions
    \/ clean
    \/ config
    \/ asm
    \/ size
    \/ help
    \/ make_done
    \/ edit_source

SpecBuild == InitBuild /\ [][NextBuild]_vars

(***************************************************************************)
(* Makefile: the default action with job slots (make -jN) on a tree        *)
(* without artifacts.  A recipe starts and, in a later step, exits; make   *)
(* starts a target when its prerequisites are made and a slot is free,     *)
(* taking the targets in the order it visits them, and starts nothing      *)
(* more once a recipe has failed.                                          *)
(***************************************************************************)

\* most job slots a caller asks for
MaxJobs == 3

\* the targets whose rule has a recipe: every rule but that of all (the
\* sources have no rule)
HasRecipe(t) ==
    t \in Artifacts \cup { "check-toolchain" } \cup (Goals \ { "all" })

\* the targets of the default action that have a recipe, as make visits them
AllRecipes == SelectSeq(PlanOf["all"], HasRecipe)

InitJobs ==
    /\ RunIdle
    /\ ResolveIdle
    /\ VerifyIdle
    /\ BuildIdle
    /\ ArchIdle
    /\ jobs \in 1..MaxJobs
    /\ jstate = [t \in Range(AllRecipes) |-> "waiting"]

\* every prerequisite of t that has a recipe is made
Ready(t) ==
    /\ jstate[t] = "waiting"
    /\ \A i \in DOMAIN Prereqs(t) :
           HasRecipe(Prereqs(t)[i]) => jstate[Prereqs(t)[i]] = "done"

NowRunning == { t \in DOMAIN jstate : jstate[t] = "running" }

\* make starts the recipe of the first target that is ready
job_start ==
    /\ jobs \in 1..MaxJobs
    /\ Cardinality(NowRunning) < jobs
    /\ \A t \in DOMAIN jstate : jstate[t] # "failed"
    /\ \E i \in DOMAIN AllRecipes :
        /\ Ready(AllRecipes[i])
        /\ \A j \in 1..(i - 1) : ~Ready(AllRecipes[j])
        /\ jstate' = [jstate EXCEPT ![AllRecipes[i]] = "running"]
    /\ UNCHANGED jobs
    /\ UNCHANGED <<runVars, resolveVars, verifyVars, buildVars, archVars>>

\* a running recipe exits, with status 0 or not
job_exit ==
    /\ \E t \in NowRunning, ok \in BOOLEAN :
           jstate' = [jstate EXCEPT ![t] = IF ok THEN "done" ELSE "failed"]
    /\ UNCHANGED jobs
    /\ UNCHANGED <<runVars, resolveVars, verifyVars, buildVars, archVars>>

NextJobs ==
    \/ job_start
    \/ job_exit

SpecJobs == InitJobs /\ [][NextJobs]_vars

(***************************************************************************)
(* Makefile: the architecture string of CFLAGS.  ARCH and ISA_EXTENSIONS   *)
(* are text without blanks, given in the file or on the command line.      *)
(***************************************************************************)

\* longest extension string
MaxExt == 3

\* values of ARCH: the file's rv32i and two a caller may give
Bases ==
    { << "r", "v", "3", "2", "i" >>,
      << "r", "v", "3", "2", "e" >>,
      << "r", "v", "6", "4", "i" >> }

\* letters of the examples m, a, c
ExtLetters == { "m", "a", "c" }

\* values of ISA_EXTENSIONS, the empty one included
ExtensionStrings == UNION { [1..n -> ExtLetters] : n \in 0..MaxExt }

\* FULL_ARCH taking the else branch whatever ISA_EXTENSIONS holds
FULL_ARCH_BaseOnly(arch, ext) ==
    IF ext # << >>
    THEN arch
    ELSE arch

\* ifneq ($(ISA_EXTENSIONS),)  FULL_ARCH = $(ARCH)$(ISA_EXTENSIONS)
\* else  FULL_ARCH = $(ARCH)  endif
FULL_ARCH(arch, ext) ==
    IF ext # << >>
    THEN arch \o ext
    ELSE arch

InitArch ==
    /\ RunIdle
    /\ ResolveIdle
    /\ VerifyIdle
    /\ BuildIdle
    /\ JobsIdle
    /\ apc = "parse"
    /\ ARCH \in Bases
    /\ ISA_EXTENSIONS \in ExtensionStrings
    /\ march = << >>

\* make expands  -march=$(FULL_ARCH)  of CFLAGS for a compile or link
expand_cflags ==
    /\ apc = "parse"
    /\ march' = FULL_ARCH(ARCH, ISA_EXTENSIONS)
    /\ apc' = "done"
    /\ UNCHANGED <<ARCH, ISA_EXTENSIONS>>
    /\ UNCHANGED <<runVars, resolveVars, verifyVars, buildVars, jobVars>>

NextArch == expand_cflags

SpecArch == InitArch /\ [][NextArch]_vars

(***************************************************************************)
(* The processor the program runs on, when it implements RV32I.  A         *)
(* register is 32 bits, bit 0 the least significant, negative numbers in   *)
(* two's complement; memory is bytes, a halfword or word stored least      *)
(* significant byte first.  Every operation is computed bit by bit.        *)
(***************************************************************************)

\* bit i of the natural number n
BitOf(n, i) == (n \div (2 ^ i)) % 2

\* the eight bits o .. o + 7 of f, written out
Bits8(f, o) ==
    (((o :> f[o]) @@ ((o + 1) :> f[o + 1])) @@
     (((o + 2) :> f[o + 2]) @@ ((o + 3) :> f[o + 3]))) @@
    ((((o + 4) :> f[o + 4]) @@ ((o + 5) :> f[o + 5])) @@
     (((o + 6) :> f[o + 6]) @@ ((o + 7) :> f[o + 7])))

\* the register whose bit i is f[i]
Word(f) ==
    (Bits8(f, 0) @@ Bits8(f, 8)) @@ (Bits8(f, 16) @@ Bits8(f, 24))

\* the register that holds the C value n of type int32_t
W(n) ==
    Word([i \in 0..31 |->
        IF i = 31
        THEN (IF n < 0 THEN 1 ELSE 0)
        ELSE IF n >= 0
             THEN BitOf(n, i)
             ELSE 1 - BitOf(-(n + 1), i)])

\* the register that holds the hexadecimal constant with upper half hi
\* and lower half lo
HL(hi, lo) ==
    Word([i \in 0..31 |-> IF i < 16 THEN BitOf(lo, i) ELSE BitOf(hi, i - 16)])

\* the number in bits 0..15 of a register
Lo(a) ==
    1 * a[0] + 2 * a[1] + 4 * a[2] + 8 * a[3] +
    16 * a[4] + 32 * a[5] + 64 * a[6] + 128 * a[7] +
    256 * a[8] + 512 * a[9] + 1024 * a[10] + 2048 * a[11] +
    4096 * a[12] + 8192 * a[13] + 16384 * a[14] + 32768 * a[15]

\* the number in bits 16..31 of a register
Hi(a) ==
    1 * a[16] + 2 * a[17] + 4 * a[18] + 8 * a[19] +
    16 * a[20] + 32 * a[21] + 64 * a[22] + 128 * a[23] +
    256 * a[24] + 512 * a[25] + 1024 * a[26] + 2048 * a[27] +
    4096 * a[28] + 8192 * a[29] + 16384 * a[30] + 32768 * a[31]

\* the low 32 bits of a + b + cin, added half by half: the carry out of
\* bit 15 goes into bit 16, the carry out of bit 31 is dropped
AddWithCarry(a, b, cin) ==
    LET lo == Lo(a) + Lo(b) + cin
        hi == Hi(a) + Hi(b) + (lo \div 65536)
    IN HL(hi % 65536, lo % 65536)

NOT(a) == Word([i \in 0..31 |-> 1 - a[i]])

\* add, addi
ADD(a, b) == AddWithCarry(a, b, 0)

\* sub
SUB(a, b) == AddWithCarry(a, NOT(b), 1)

\* and, andi
AND(a, b) == Word([i \in 0..31 |-> a[i] * b[i]])

\* or, ori
OR(a, b) == Word([i \in 0..31 |-> a[i] + b[i] - a[i] * b[i]])

\* xor, xori
XOR(a, b) == Word([i \in 0..31 |-> (a[i] + b[i]) % 2])

\* the shift amount: the low five bits of the second operand
Shamt(b) == b[0] + 2 * b[1] + 4 * b[2] + 8 * b[3] + 16 * b[4]

\* sll, slli
SLL(a, b) ==
    Word([i \in 0..31 |-> IF i >= Shamt(b) THEN a[i - Shamt(b)] ELSE 0])

\* srl, srli: zeros come in at the top
SRL(a, b) ==
    Word([i \in 0..31 |-> IF i + Shamt(b) <= 31 THEN a[i + Shamt(b)] ELSE 0])

\* a right shift that fills with zeros where sra fills with the sign
SRA_ZeroFill(a, b) ==
    Word([i \in 0..31 |-> IF i + Shamt(b) <= 31 THEN a[i + Shamt(b)] ELSE 0])

\* sra, srai: copies of the sign bit come in at the top
SRA(a, b) ==
    Word([i \in 0..31 |-> IF i + Shamt(b) <= 31 THEN a[i + Shamt(b)] ELSE a[31]])

\* bltu, sltu, sltiu: a below b, all 32 bits compared as magnitude
LTU(a, b) ==
    \E i \in 0..31 :
        /\ a[i] < b[i]
        /\ \A j \in (i + 1)..31 : a[j] = b[j]

\* blt, slt, slti: a below b as two's complement numbers
LT(a, b) ==
    IF a[31] # b[31]
    THEN a[31] = 1
    ELSE LTU(a, b)

SLT(a, b) == IF LT(a, b) THEN W(1) ELSE W(0)

SLTU(a, b) == IF LTU(a, b) THEN W(1) ELSE W(0)

\* lui: the 20-bit immediate in bits 31..12, zeros below
LUI(imm) == Word([i \in 0..31 |-> IF i < 12 THEN 0 ELSE BitOf(imm, i - 12)])

\* auipc at address pc
AUIPC(pc_, imm) == ADD(pc_, LUI(imm))

\* memory of n bytes, all zero
ZeroMem(n) == [a \in 0..(n - 1) |-> Bits8([i \in 0..7 |-> 0], 0)]

\* byte j of a register, byte 0 the least significant
ByteOf(w, j) == Bits8([i \in 0..7 |-> w[8 * j + i]], 0)

\* sb, sh, sw: the low width bytes of w at addr, addr + 1, ...
Store(mem, width, addr, w) ==
    [a \in DOMAIN mem |->
        IF a \in addr..(addr + width - 1) THEN ByteOf(w, a - addr) ELSE mem[a]]

SB(mem, addr, w) == Store(mem, 1, addr, w)

SH(mem, addr, w) == Store(mem, 2, addr, w)

SW(mem, addr, w) == Store(mem, 4, addr, w)

\* lw
LW(mem, addr) == Word([i \in 0..31 |-> mem[addr + (i \div 8)][i % 8]])

\* lbu: the byte, zeros above
LBU(mem, addr) == Word([i \in 0..31 |-> IF i < 8 THEN mem[addr][i] ELSE 0])

\* lb: the byte, its bit 7 copied above
LB(mem, addr) == Word([i \in 0..31 |-> IF i < 8 THEN mem[addr][i] ELSE mem[addr][7]])

\* lhu
LHU(mem, addr) ==
    Word([i \in 0..31 |-> IF i < 16 THEN mem[addr + (i \div 8)][i % 8] ELSE 0])

\* lh
LH(mem, addr) ==
    Word([i \in 0..31 |->
        IF i < 16 THEN mem[addr + (i \div 8)][i % 8] ELSE mem[addr + 1][7]])

\* a C array with initialiser vals, elements of width bytes, from address 0
RECURSIVE InitArray(_, _, _, _)
InitArray(mem, width, vals, j) ==
    IF j > Len(vals)
    THEN mem
    ELSE InitArray(Store(mem, width, width * (j - 1), vals[j]), width, vals, j + 1)

\* the C conversion (int32_t)(int8_t) of a constant
CastInt8(w) == Word([i \in 0..31 |-> IF i < 8 THEN w[i] ELSE w[7]])

(***************************************************************************)
(* The test groups on that processor: the value of every ASSERT condition, *)
(* in program order, computed from the operands the source gives.          *)
(***************************************************************************)

test_arithmetic_conditions(reg) ==
    LET a == W(10)
        b == W(5)
        shift_amt == W(3)
        neg == W(-16)
        ua == HL(65535, 65535)        \* 0xFFFFFFFF
        ub == W(5)
    IN IF reg = "part_003"
       THEN << ADD(a, b) = W(15),
               SUB(a, b) = W(5),
               AND(a, b) = W(0),
               OR(a, b) = W(15),
               XOR(a, b) = W(15),
               SLL(a, W(2)) = W(40),
               SRL(a, W(2)) = W(2),                 \* (uint32_t)a >> 2
               SRL(SLL(a, W(3)), shift_amt) = W(10),
               SRA(neg, W(2)) = W(-4),
               SLT(a, b) = W(0),
               SLT(b, a) = W(1),
               SLTU(ua, ub) = W(0) >>
       ELSE << ADD(a, b) = W(15),
               SUB(a, b) = W(5),
               AND(a, b) = W(0),
               OR(a, b) = W(15),
               XOR(a, b) = W(15),
               SLL(a, W(2)) = W(40),
               SRA(a, W(2)) = W(2),                 \* a >> 2 ,  a signed
               SRA(neg, W(2)) = W(-4),
               SLT(a, b) = W(0),
               SLT(b, a) = W(1),
               SLTU(ua, ub) = W(0) >>

test_memory_conditions ==
    LET array == InitArray(ZeroMem(32), 4,
                           << W(0), W(1), W(2), W(3), W(4), W(5), W(6), W(7) >>, 1)
        byte_array == InitArray(ZeroMem(4), 1,
                                << W(-1), W(0), W(127), W(-128) >>, 1)
        half_array == InitArray(ZeroMem(8), 2,
                                << W(-1), W(0), W(32767), W(-32768) >>, 1)
    IN << LW(array, 4 * 3) = W(3),
          LW(SW(array, 0, W(42)), 0) = W(42),
          LB(byte_array, 0) = W(-1),
          LBU(byte_array, 0) = W(255),
          LH(half_array, 0) = W(-1),
          LHU(half_array, 0) = W(65535) >>

test_explicit_instructions_conditions ==
    LET \* {0x12, 0x34, 0x56, 0x78, 0x9a, 0xbc, 0xde, 0xff}
        byte_buf == InitArray(ZeroMem(8), 1,
                              << W(18), W(52), W(86), W(120),
                                 W(154), W(188), W(222), W(255) >>, 1)
        buf1 == SB(SB(byte_buf, 0, W(255)), 1, W(255))
        buf2 == SB(buf1, 2, W(171))                 \* 0xAB
        buf3 == SH(buf2, 4, W(4660))                \* 0x1234
    IN << LB(byte_buf, 4) = CastInt8(W(154)),
          LH(buf1, 0) = W(-1),
          LBU(buf2, 2) = W(171),
          LBU(buf3, 4) = W(52) /\ LBU(buf3, 5) = W(18),
          SRL(HL(32768, 0), W(4)) = HL(2048, 0),    \* 0x80000000, 0x08000000
          SLL(W(1), W(5)) = W(32),
          SRA(W(-64), W(3)) = W(-8) >>

\* the conditions of the six if statements of test_branches
BranchConditions ==
    LET a == W(10)
        b == W(5)
        ua == W(5)
        ub == W(10)
    IN << a = a,
          a # b,
          LT(b, a),
          ~LT(a, b),
          LTU(ua, ub),
          ~LTU(ub, ua) >>

\* for (i = 0; i < 10; i++) { sum += i; }  with the locals in l
RECURSIVE for_loop(_)
for_loop(l) ==
    IF LT(l.i, W(10))
    THEN for_loop([i |-> ADD(l.i, W(1)), sum |-> ADD(l.sum, l.i)])
    ELSE l.sum

\* while (i < 10) { sum += i; i++; }  with the locals in l
RECURSIVE while_loop(_)
while_loop(l) ==
    IF LT(l.i, W(10))
    THEN while_loop([i |-> ADD(l.i, W(1)), sum |-> ADD(l.sum, l.i)])
    ELSE l.sum

test_loops_conditions ==
    << for_loop([i |-> W(0), sum |-> W(0)]) = W(45),
       while_loop([i |-> W(0), sum |-> W(0)]) = W(45) >>

add_function(a, b) == ADD(a, b)

\* if (n <= 0) return 0;  rest = recursive_sum(n - 1);  return n + rest;
\* the call has returned its value rest before the addition starts
RECURSIVE recursive_sum(_)
recursive_sum(n) ==
    IF ~LT(W(0), n)
    THEN W(0)
    ELSE CHOOSE r \in { ADD(n, rest) :
                          rest \in { recursive_sum(SUB(n, W(1))) } } : TRUE

test_functions_conditions ==
    << add_function(W(7), W(8)) = W(15),
       recursive_sum(W(10)) = W(55) >>

test_immediates_conditions ==
    LET a == W(100)
        ua == W(100)
    IN << ADD(a, W(50)) = W(150),
          AND(a, W(15)) = W(4),                     \* 0x0F
          OR(a, W(240)) = W(244),                   \* 0xF0, 0xF4
          XOR(a, W(255)) = W(155),                  \* 0xFF, 0x9B
          SLT(a, W(200)) = W(1),
          SLT(a, W(50)) = W(0),
          SLTU(ua, W(200)) = W(1) >>

\* addresses the first of the two auipc instructions may be linked at
CodeAddresses == { W(0), W(256), HL(32768, 0), HL(65535, 65528) }

test_upper_immediates_conditions(reg) ==
    LET lui == SRL(LUI(74565), W(12)) = W(74565)    \* 0x12345000 >> 12
        large == SRL(LUI(703696), W(16)) = W(43981) \* 0xABCD0000 >> 16
        auipc == \A p \in CodeAddresses :
                     SUB(AUIPC(ADD(p, W(4)), 0), AUIPC(p, 0)) = W(4)
    IN IF reg = "part_003"
       THEN << lui, large, auipc >>
       ELSE << lui, large >>

\* jump_target(): jump_callback_flag = 1;  the value the flag then holds
jump_target == W(1)

test_jumps_conditions(reg) ==
    IF reg = "part_003"
    THEN << jump_target = W(1), jump_target = W(1) >>
    ELSE << jump_target = W(1) >>

Conditions(reg, g) ==
    CASE g = "test_arithmetic" -> test_arithmetic_conditions(reg)
      [] g = "test_memory" -> test_memory_conditions
      [] g = "test_explicit_instructions" ->
           IF reg = "part_003"
           THEN test_explicit_instructions_conditions
           ELSE << >>
      [] g = "test_branches" -> BranchConditions
      [] g = "test_loops" -> test_loops_conditions
      [] g = "test_functions" -> test_functions_conditions
      [] g = "test_immediates" -> test_immediates_conditions
      [] g = "test_upper_immediates" -> test_upper_immediates_conditions(reg)
      [] g = "test_jumps" -> test_jumps_conditions(reg)

\* the test groups the two revisions define
Groups ==
    { "test_arithmetic", "test_memory", "test_explicit_instructions",
      "test_branches", "test_loops", "test_functions", "test_immediates",
      "test_upper_immediates", "test_jumps" }

\* every condition of both revisions, by group
Computed ==
    LET In(reg) ==
            [ test_arithmetic |-> Conditions(reg, "test_arithmetic"),
              test_memory |-> Conditions(reg, "test_memory"),
              test_explicit_instructions |->
                  Conditions(reg, "test_explicit_instructions"),
              test_branches |-> Conditions(reg, "test_branches"),
              test_loops |-> Conditions(reg, "test_loops"),
              test_functions |-> Conditions(reg, "test_functions"),
              test_immediates |-> Conditions(reg, "test_immediates"),
              test_upper_immediates |->
                  Conditions(reg, "test_upper_immediates"),
              test_jumps |-> Conditions(reg, "test_jumps") ]
    IN [ part_003 |-> In("part_003"), test_rv32i |-> In("test_rv32i") ]

(***************************************************************************)
(* The run of main().                                                      *)
(***************************************************************************)

InitRun ==
    /\ ResolveIdle
    /\ BuildIdle
    /\ JobsIdle
    /\ ArchIdle
    /\ VerifyIdle
    /\ registry \in Registries
    /\ computed = Computed[registry]
    /\ pc = "start"
    /\ grp = 1
    /\ k = 0
    /\ test_passed = 0
    /\ test_failed = 0
    /\ test_result = 0
    /\ count = 0
    /\ retval = -1
    /\ executed = 0
    /\ anyFailed = FALSE
    /\ groupsRun = << >>
    /\ faults = 0
    /\ brMiss = 0
    /\ brFailed = 0

\* main(): test_passed = 0; test_failed = 0; test_result = 0;
main_reset ==
    /\ pc = "start"
    /\ pc' = "run"
    /\ test_passed' = 0
    /\ test_failed' = 0
    /\ test_result' = 0
    /\ UNCHANGED <<registry, computed, grp, k, count, retval, executed, anyFailed,
                   groupsRun, faults, brMiss, brFailed>>
    /\ UNCHANGED <<resolveVars, verifyVars, makeVars>>

\* main() is inside group g, which has a further ASSERT site to execute
InGroup(g) ==
    /\ pc = "run"
    /\ grp <= Len(MainCalls(registry))
    /\ MainCalls(registry)[grp] = g
    /\ k < Len(GroupAsserts(registry, g))

\* The next ASSERT site of group g, its condition evaluating to `condition`;
\* after the last site of g the group returns and main() calls the next one.
AssertSite(g, condition) ==
    /\ InGroup(g)
    /\ LET L == ASSERT(condition, [passed |-> test_passed,
                                   failed |-> test_failed,
                                   result |-> test_result])
           last == (k + 1 = Len(GroupAsserts(registry, g)))
       IN /\ test_passed' = L.passed
          /\ test_failed' = L.failed
          /\ test_result' = L.result
          /\ k' = IF last THEN 0 ELSE k + 1
          /\ grp' = IF last THEN grp + 1 ELSE grp
    /\ executed' = executed + 1
    /\ anyFailed' = (anyFailed \/ ~condition)
    /\ groupsRun' = IF k = 0 THEN Append(groupsRun, g) ELSE groupsRun
    /\ UNCHANGED <<registry, computed, pc, retval>>
    /\ UNCHANGED <<resolveVars, verifyVars, makeVars>>

\* A site that checks a freshly computed value.  A processor that executed
\* the operations of the site as RV32I prescribes (ok) gives the condition
\* the value computed above; one that did not gives it a wrong value.
FreshSite(g, ok) ==
    /\ AssertSite(g, ok /\ computed[g][k + 1])
    /\ faults' = faults + (IF ok THEN 0 ELSE 1)
    /\ UNCHANGED <<count, brMiss, brFailed>>

test_arithmetic ==
    \E ok \in BOOLEAN :
        /\ InGroup("test_arithmetic")
        /\ FreshSite("test_arithmetic", ok)

test_memory ==
    \E ok \in BOOLEAN :
        /\ InGroup("test_memory")
        /\ FreshSite("test_memory", ok)

test_explicit_instructions ==
    \E ok \in BOOLEAN :
        /\ InGroup("test_explicit_instructions")
        /\ FreshSite("test_explicit_instructions", ok)

\* test_branches: count = 0 on entry; before each site a conditional
\* count++.  A processor that evaluates the branch as RV32I prescribes
\* (taken) follows the condition computed above; one that does not skips
\* the increment.
test_branches ==
    \E taken \in BOOLEAN :
        LET c == BranchCount(IF k = 0 THEN 0 ELSE count,
                             taken /\ computed["test_branches"][k + 1])
        IN /\ InGroup("test_branches")
           /\ AssertSite("test_branches", c = BranchExpected[k + 1])
           /\ count' = c
           /\ faults' = faults + (IF taken THEN 0 ELSE 1)
           /\ brMiss' = IF ~taken /\ brMiss = 0 THEN k + 1 ELSE brMiss
           /\ brFailed' = brFailed
                           + (IF c = BranchExpected[k + 1] THEN 0 ELSE 1)

test_loops ==
    \E ok \in BOOLEAN :
        /\ InGroup("test_loops")
        /\ FreshSite("test_loops", ok)

test_functions ==
    \E ok \in BOOLEAN :
        /\ InGroup("test_functions")
        /\ FreshSite("test_functions", ok)

test_immediates ==
    \E ok \in BOOLEAN :
        /\ InGroup("test_immediates")
        /\ FreshSite("test_immediates", ok)

test_upper_immediates ==
    \E ok \in BOOLEAN :
        /\ InGroup("test_upper_immediates")
        /\ FreshSite("test_upper_immediates", ok)

test_jumps ==
    \E ok \in BOOLEAN :
        /\ InGroup("test_jumps")
        /\ FreshSite("test_jumps", ok)

\* main(): return test_result;
main_return ==
    /\ pc = "run"
    /\ grp > Len(MainCalls(registry))
    /\ pc' = "done"
    /\ retval' = test_result
    /\ UNCHANGED <<registry, computed, grp, k, test_passed, test_failed, test_result,
                   count, executed, anyFailed, groupsRun, faults, brMiss,
                   brFailed>>
    /\ UNCHANGED <<resolveVars, verifyVars, makeVars>>

NextRun ==
    \/ main_reset
    \/ test_arithmetic
    \/ test_memory
    \/ test_explicit_instructions
    \/ test_branches
    \/ test_loops
    \/ test_functions
    \/ test_immediates
    \/ test_upper_immediates
    \/ test_jumps
    \/ main_return

SpecRun == InitRun /\ [][NextRun]_vars

\* main() is straight-line code on a single thread: it keeps executing
SpecRunFair == SpecRun /\ WF_vars(NextRun)

(***************************************************************************)
(* Properties of the run.                                                  *)
(***************************************************************************)

\* C1: after the reset, test_passed + test_failed is the number of ASSERT
\* sites executed so far; every executed site adds 1 to exactly one of the
\* two counters, and no other step of the run changes either counter.
C1_CountersCountAsserts ==
    /\ [](pc # "start" => test_passed + test_failed = executed)
    /\ [][pc = "run" =>
            IF executed' = executed + 1
            THEN \/ test_passed' = test_passed + 1 /\ test_failed' = test_failed
                 \/ test_failed' = test_failed + 1 /\ test_passed' = test_passed
            ELSE test_passed' = test_passed /\ test_failed' = test_failed]_vars

C1_Witness ==
    /\ pc = "done"
    /\ registry = "part_003"
    /\ executed = 47
    /\ test_passed = 44
    /\ test_failed = 3

\* C2: after the reset, test_result is 0 exactly when test_failed is 0.
C2_StatusIffFailed ==
    pc # "start" => (test_result = 0 <=> test_failed = 0)

C2_Witness ==
    /\ pc = "run"
    /\ test_failed = 1
    /\ test_result = 1
    /\ test_passed = 5

\* C3: once test_result is 1 no later step clears it, main() returns
\* test_result, and it returns 0 only if no assertion of the run failed.
C3_StickyStatus ==
    /\ [][test_result = 1 => test_result' = 1]_vars
    /\ [](pc = "done" => /\ retval = test_result
                         /\ (retval = 0 => ~anyFailed))

C3_Witness ==
    /\ pc = "done"
    /\ retval = 1
    /\ test_failed = 1
    /\ test_passed = 46

\* C4: when main() returns, test_passed + test_failed is the number of
\* ASSERT sites of the groups main() calls: 47 for the nine-group program,
\* 31 for test_rv32i.c, whose test_memory() call is commented out.
C4_StaticAssertTotal ==
    pc = "done" =>
        test_passed + test_failed = (IF registry = "part_003" THEN 47 ELSE 31)

C4_Witness ==
    /\ pc = "done"
    /\ registry = "test_rv32i"
    /\ test_failed = 4
    /\ test_passed = 27

\* C5: whatever the assertion outcomes, the run reaches main()'s return,
\* and by then every group main() calls has been entered exactly once, in
\* the fixed order arithmetic, memory, explicit instructions, branches,
\* loops, functions, immediates, upper immediates, jumps (test_rv32i.c:
\* the same order without memory and explicit instructions).
C5_RunsToCompletionInOrder ==
    /\ <>(pc = "done")
    /\ [](pc = "done" =>
            groupsRun =
              IF registry = "part_003"
              THEN << "test_arithmetic", "test_memory",
                      "test_explicit_instructions", "test_branches",
                      "test_loops", "test_functions", "test_immediates",
                      "test_upper_immediates", "test_jumps" >>
              ELSE << "test_arithmetic", "test_branches",
                      "test_loops", "test_functions", "test_immediates",
                      "test_upper_immediates", "test_jumps" >>)

\* a failure in test_branches, after which the five later groups ran and
\* their sixteen assertions passed
C5_Witness ==
    /\ pc = "done"
    /\ registry = "part_003"
    /\ brMiss = 4
    /\ brFailed = 3
    /\ test_failed = 3
    /\ test_passed = 44
    /\ Len(groupsRun) = 9

\* C6 as claimed: when exactly one checked operation of the run misbehaved,
\* exactly one assertion has failed when main() returns.
C6_IsolatedPerAssertion ==
    (pc = "done" /\ faults = 1) => test_failed = 1

\* C6 as amended: when exactly one checked operation of the run misbehaved,
\* then if it is the m-th conditional increment of test_branches, the m-th
\* and every later assertion of test_branches fail (7 - m of them) and no
\* assertion outside test_branches fails; otherwise exactly one assertion
\* fails, and it is not one of test_branches.
C6_IsolatedPerGroup ==
    (pc = "done" /\ faults = 1) =>
        IF brMiss = 0
        THEN test_failed = 1 /\ brFailed = 0
        ELSE brFailed = 7 - brMiss /\ test_failed = brFailed

C6_Witness ==
    /\ pc = "done"
    /\ faults = 1
    /\ brMiss = 1
    /\ test_failed = 6
    /\ test_passed = 41

(***************************************************************************)
(* Properties of verify-instructions.  What the claims call a token is a   *)
(* word of the line: a maximal run of letters, digits and underscores.     *)
(***************************************************************************)

\* the positions of line at which a word starts
WordStarts(line) ==
    { a \in 1..Len(line) :
        IsWordChar(line[a]) /\ (a = 1 \/ ~IsWordChar(line[a - 1])) }

\* the last position of the word that starts at position a
WordEnd(line, a) ==
    CHOOSE e \in a..Len(line) :
        /\ \A x \in a..e : IsWordChar(line[x])
        /\ (e = Len(line) \/ ~IsWordChar(line[e + 1]))

\* the tokens of a line
Tokens(line) ==
    { SubSeq(line, a, WordEnd(line, a)) : a \in WordStarts(line) }

\* the tokens of every line a listing can hold
TokensOfLine == [l \in LinePool |-> Tokens(l)]

OccursAsToken(file, m) ==
    \E n \in 1..Len(file) : m \in TokensOfLine[file[n]]

IsMissingLine(e) == e.text = "MISSING"

\* the mnemonics of the MISSING lines printed so far, in print order
ReportedMissing ==
    LET sel == SelectSeq(out, IsMissingLine)
    IN [i \in 1..Len(sel) |-> sel[i].insn]

Reported(m) ==
    \E i \in 1..Len(out) : out[i].text = "MISSING" /\ out[i].insn = m

\* C7: when the recipe ends, the MISSING lines name exactly the required
\* mnemonics that do not occur in the listing, each once, in the order of
\* the required list.
C7_MissingInRequiredOrder ==
    vpc = "done" =>
        LET Absent(m) == ~OccursAsToken(listing, m)
        IN ReportedMissing = SelectSeq(required, Absent)

\* required = add, sub, jal; the listing holds add and jal but not sub
C7_Witness ==
    /\ vpc = "done"
    /\ required = << Mn_add, Mn_sub, Mn_jal >>
    /\ listing = << Line_add, Line_jal >>
    /\ ReportedMissing = << Mn_sub >>
    /\ vexit # 0

\* C8: a mnemonic the loop has dealt with is reported missing unless it
\* occurs as a token of its own on some line; occurring inside a longer
\* token (sll in slli, add in addi or add_function, sll in Xsll) does not
\* count.
C8_WholeTokenMatch ==
    /\ vpc \in { "loop", "done" } =>
           \A j \in 1..(vidx - 1) :
               Reported(required[j]) <=> ~OccursAsToken(listing, required[j])
    /\ (vpc = "done" /\ required = << Mn_sll >>) =>
           /\ listing = << Line_Xsll >> => ReportedMissing = << Mn_sll >>
           /\ listing = << Line_slli >> => ReportedMissing = << Mn_sll >>
           /\ listing = << Line_sll >> => ReportedMissing = << >>

\* the listing holds only the line  slli a0,a1,0x3  and sll is reported
C8_Witness ==
    /\ vpc = "done"
    /\ listing = << Line_slli >>
    /\ required = << Mn_sll >>
    /\ LineMatches_NoBoundary(Line_slli, Mn_sll)
    /\ ReportedMissing = << Mn_sll >>

\* C9: the recipe exits nonzero exactly when some required mnemonic is
\* absent from the listing.  With none absent it exits 0, prints no
\* MISSING line and ends with the all-present message; otherwise it prints
\* one MISSING line per absent mnemonic and ends with their count.
C9_ExitStatus ==
    vpc = "done" =>
        LET absent == { j \in 1..Len(required) :
                          ~OccursAsToken(listing, required[j]) }
            nMissingLines == Len(SelectSeq(out, IsMissingLine))
            last == out[Len(out)]
        IN /\ (vexit # 0 <=> absent # {})
           /\ absent = {} =>
                /\ vexit = 0
                /\ nMissingLines = 0
                /\ last.text = "ALL_PRESENT"
           /\ absent # {} =>
                /\ nMissingLines = Cardinality(absent)
                /\ last.text = "NOT_FOUND"
                /\ last.n = nMissingLines

\* the Makefile's own list against a listing that names all 37 mnemonics
C9_Witness ==
    /\ vpc = "done"
    /\ required = RV32I_INSNS
    /\ listing = << Line_slli, Line_all >>
    /\ vexit = 0
    /\ out[Len(out)].text = "ALL_PRESENT"

(***************************************************************************)
(* Properties of the toolchain probe.                                      *)
(***************************************************************************)

\* the first candidate, in probe order, whose gcc is among cmds
FirstCandidateIn(cmds) ==
    Candidates[CHOOSE i \in 1..Len(Candidates) :
                 /\ GccOf(Candidates[i]) \in cmds
                 /\ \A j \in 1..(i - 1) : GccOf(Candidates[j]) \notin cmds]

\* C10 as claimed: a given TOOLCHAIN_PREFIX is kept; otherwise the first
\* candidate found on the search path wins; otherwise, when one of the
\* same candidate binaries is a file in a fixed installation directory,
\* the prefix returned is that of a candidate found there.
C10_FirstProbeWins ==
    rpc = "resolved" =>
        IF override # Unset
        THEN TOOLCHAIN_PREFIX = override
        ELSE IF onPath \cap CandidateGccs # {}
        THEN TOOLCHAIN_PREFIX = FirstCandidateIn(onPath)
        ELSE (homebrewBin \cup usrLocalBin) \cap CandidateGccs # {} =>
                GccOf(TOOLCHAIN_PREFIX) \in homebrewBin \cup usrLocalBin

\* C10 as amended: a given TOOLCHAIN_PREFIX is kept and no probe replaces
\* it; otherwise the first candidate found on the search path wins;
\* otherwise /opt/homebrew/bin and then /usr/local/bin are checked for
\* riscv64-unknown-elf-gcc alone, and the other three candidates are not
\* looked for there.
C10_FirstProbeWinsDirsOnlyFirst ==
    rpc = "resolved" =>
        IF override # Unset
        THEN TOOLCHAIN_PREFIX = override /\ probe = "override"
        ELSE IF onPath \cap CandidateGccs # {}
        THEN TOOLCHAIN_PREFIX = FirstCandidateIn(onPath) /\ probe = "path"
        ELSE IF GccOf(Candidates[1]) \in homebrewBin
        THEN TOOLCHAIN_PREFIX = Candidates[1] /\ probe = "homebrew"
        ELSE IF GccOf(Candidates[1]) \in usrLocalBin
        THEN TOOLCHAIN_PREFIX = Candidates[1] /\ probe = "usrlocal"
        ELSE probe = "fallback"

\* nothing on the search path, riscv32-unknown-elf-gcc in /opt/homebrew/bin
\* and riscv64-unknown-elf-gcc in /usr/local/bin: the latter is the hit
C10_Witness ==
    /\ rpc = "resolved"
    /\ override = Unset
    /\ onPath = {}
    /\ homebrewBin = { "riscv32-unknown-elf-gcc" }
    /\ usrLocalBin = { "riscv64-unknown-elf-gcc" }
    /\ probe = "usrlocal"
    /\ TOOLCHAIN_PREFIX = "riscv64-unknown-elf-"

(***************************************************************************)
(* Properties of the build: the toolchain at the time an action runs.      *)
(***************************************************************************)

\* an invocation of make has ended
InvocationOver == bpc = "idle" /\ invocations > 0

\* the compiler make resolved is found by the Makefile's own test
CompilerFound ==
    CC(TOOLCHAIN_PREFIX) \in onPath \cup homebrewBin \cup usrLocalBin

\* C11 as stated: when every probe fails the prefix is the fallback
\* riscv64-unknown-elf- and the action fails at the first toolchain
\* command it invokes, which is then the only command invoked.
C11_SurfacesAtFirstToolCommand ==
    (probe = "fallback" /\ InvocationOver
       /\ goal \in { "all", "verify-instructions" }) =>
        /\ TOOLCHAIN_PREFIX = "riscv64-unknown-elf-"
        /\ bexit # 0
        /\ failedAt \in Artifacts
        /\ invoked = << failedAt >>

\* after reading the Makefile with the fallback prefix: where the default
\* action and the coverage check stand or have ended
C11_AfterFallback ==
    (probe = "fallback" /\ invocations > 0) =>
        /\ TOOLCHAIN_PREFIX = "riscv64-unknown-elf-"
        /\ ~CompilerFound
        /\ goal = "all" =>
               /\ invoked = << >>
               /\ bpc = "idle" => failedAt = "check-toolchain" /\ bexit = 2
        /\ goal = "verify-instructions" =>
               /\ failedAt # "check-toolchain"
               /\ Len(invoked) <= 1
               /\ invoked # << >> =>
                      /\ bpc = "idle"
                      /\ bexit = 2
                      /\ failedAt = invoked[1]
                      /\ PlanOf[goal][bstep] = failedAt
                      /\ failedAt \in Artifacts
               /\ (bpc = "idle" /\ invoked = << >>) =>
                      /\ ~OutOfDate(DUMP, mtime)
                      /\ scannedFrom # "none"
                      /\ failedAt \in { "none", "verify-instructions" }
                      /\ bexit = (IF vexit = 0 THEN 0 ELSE 2)

\* the step in which the coverage check invokes its toolchain command:
\* before it, the target of the command is out of date and every target
\* make visits earlier is up to date
C11_FirstOutOfDate ==
    (/\ probe = "fallback"
     /\ goal = "verify-instructions"
     /\ invoked = << >>
     /\ invoked' # << >>) =>
        /\ OutOfDate(invoked'[1], mtime)
        /\ PlanOf[goal][bstep'] = invoked'[1]
        /\ \A j \in 1..(bstep' - 1) : ~OutOfDate(PlanOf[goal][j], mtime)

\* C11: when every probe fails, reading the Makefile still succeeds with
\* the fallback prefix riscv64-unknown-elf-, which names no compiler the
\* Makefile can find.  Under make's serial execution the failure comes when
\* the action runs: the default action fails in check-toolchain, with status
\* 2 and before any toolchain command is invoked; the coverage check, which
\* does not run check-toolchain, invokes at most one toolchain command, the
\* recipe of the first target on its way that is out of date (a compile,
\* the link or the disassembly, every target before it being up to date),
\* and ends there with status 2; when the listing is up to date it invokes
\* none, greps the listing, and its status is that of the coverage check.
C11_SurfacesAtFirstRecipe ==
    []C11_AfterFallback /\ [][C11_FirstOutOfDate]_vars

\* the objects are left from a build with another toolchain, the image is
\* not: the coverage check with the fallback prefix fails in the link
C11_Witness ==
    /\ probe = "fallback"
    /\ TOOLCHAIN_PREFIX = "riscv64-unknown-elf-"
    /\ goal = "verify-instructions"
    /\ InvocationOver
    /\ mtime["test_rv32i.o"] > 0
    /\ mtime["boot.o"] > 0
    /\ invoked = << TARGET >>
    /\ failedAt = TARGET
    /\ bexit = 2

\* C12: in either action that needs the toolchain, when the resolved
\* compiler is not found no compile, link, extract or disassemble command
\* is invoked and the action exits nonzero.
C12_FailsClosed ==
    (invocations > 0 /\ ~CompilerFound
       /\ goal \in { "all", "verify-instructions" }) =>
        /\ invoked = << >>
        /\ bpc = "idle" => bexit # 0

(***************************************************************************)
(* Properties of the build: order and failure.                             *)
(***************************************************************************)

\* place of a pipeline step in the default action
StepRank(t) ==
    CASE t = "test_rv32i.o" -> 1
      [] t = "boot.o" -> 2
      [] t = TARGET -> 3
      [] t = BIN -> 4
      [] t = DUMP -> 5
      [] OTHER -> 0

\* C13: in the default action the steps are invoked in the order compile,
\* link (executable image), objcopy (raw binary), objdump (listing); once
\* a step has failed none is invoked after it and make exits nonzero; and
\* make exits 0 only with the three artifacts in place.
C13_InOrderAndAbortOnFailure ==
    goal = "all" =>
        /\ \A i, j \in DOMAIN invoked :
               i < j => StepRank(invoked[i]) < StepRank(invoked[j])
        /\ failedAt # "none" =>
               /\ bpc = "idle"
               /\ bexit \notin { 0, -1 }
               /\ failedAt \in Artifacts =>
                      invoked[Len(invoked)] = failedAt
               /\ \A t \in Artifacts :
                      StepRank(t) > StepRank(failedAt) => t \notin Range(invoked)
        /\ bexit = 0 =>
               /\ failedAt = "none"
               /\ \A t \in { TARGET, BIN, DUMP } : ~OutOfDate(t, mtime)

\* objcopy fails after the link succeeded: objdump is not invoked
C13_Witness ==
    /\ goal = "all"
    /\ failedAt = BIN
    /\ invoked = << "test_rv32i.o", "boot.o", TARGET, BIN >>
    /\ mtime[TARGET] > 0
    /\ mtime[DUMP] = 0
    /\ bexit = 2

\* C15: a listing left by an objdump that failed is never taken for an
\* up-to-date product, and the coverage check never greps one.
C15_NoPartialListing ==
    /\ scannedFrom # "failed"
    /\ (dumpFrom = "failed" /\ bpc = "idle") => OutOfDate(DUMP, mtime)

(***************************************************************************)
(* Properties of the build: concurrency.                                   *)
(***************************************************************************)

\* C14 as stated: the binary extraction and the disassembly are ordered
\* with respect to each other, so that the two never run at the same time.
C14_ExtractionAndDisassemblyOrdered ==
    ~ (jstate[BIN] = "running" /\ jstate[DUMP] = "running")

\* C14: with one job slot (make's default) no two steps run at the same
\* time; with any number of slots a step starts only after the steps it
\* depends on have succeeded: the link after both compiles, the binary
\* extraction and the disassembly each after the link, with no order
\* between those two.
C14_OrderedByPrerequisitesOnly ==
    /\ Cardinality(NowRunning) <= jobs
    /\ jobs = 1 => Cardinality(NowRunning) <= 1
    /\ jstate[TARGET] # "waiting" =>
           jstate["test_rv32i.o"] = "done" /\ jstate["boot.o"] = "done"
    /\ jstate[BIN] # "waiting" => jstate[TARGET] = "done"
    /\ jstate[DUMP] # "waiting" => jstate[TARGET] = "done"

\* make -j2: objcopy and objdump run at the same time, after the link
C14_Witness ==
    /\ jobs = 2
    /\ jstate[TARGET] = "done"
    /\ NowRunning = { BIN, DUMP }

(***************************************************************************)
(* Properties of the architecture string.                                  *)
(***************************************************************************)

\* C16: the text after -march= is ARCH followed at once by ISA_EXTENSIONS,
\* letter for letter, with nothing dropped, merged or moved; when
\* ISA_EXTENSIONS is empty it is ARCH.
C16_BaseThenExtensions ==
    apc = "done" =>
        /\ Len(march) = Len(ARCH) + Len(ISA_EXTENSIONS)
        /\ \A i \in 1..Len(ARCH) : march[i] = ARCH[i]
        /\ \A j \in 1..Len(ISA_EXTENSIONS) :
               march[Len(ARCH) + j] = ISA_EXTENSIONS[j]
        /\ ISA_EXTENSIONS = << >> => march = ARCH

\* a repeated extension letter is kept twice
C16_Witness ==
    /\ apc = "done"
    /\ ARCH = << "r", "v", "3", "2", "i" >>
    /\ ISA_EXTENSIONS = << "m", "m" >>
    /\ march = << "r", "v", "3", "2", "i", "m", "m" >>

(***************************************************************************)
(* Properties of the coverage check: the order of the required list.       *)
(***************************************************************************)

\* the mnemonics of the MISSING lines among printed lines o, in print order
MissingLinesOf(o) ==
    LET sel == SelectSeq(o, IsMissingLine)
    IN [i \in 1..Len(sel) |-> sel[i].insn]

Reverse(s) == [i \in 1..Len(s) |-> s[Len(s) + 1 - i]]

Rotate(s) == IF s = << >> THEN s ELSE Tail(s) \o << Head(s) >>

\* every reordering of a short list; of the Makefile's list of 37, the
\* reversed and the rotated one
PermutationsOf(s) ==
    IF Len(s) <= MaxRequired
    THEN { p \in [1..Len(s) -> Range(s)] : Range(p) = Range(s) }
    ELSE { s, Reverse(s), Rotate(s) }

\* C17: when the recipe has ended, running it on the same listing with the
\* required list in any other order gives the same exit status and reports
\* the same mnemonics missing, in the order of the reordered list.
C17_PermutationInvariant ==
    vpc = "done" =>
        \A p \in PermutationsOf(required) :
            LET r == VerifyRecipe(listing, p)
                WasReported(m) == Reported(m)
            IN /\ r.status = vexit
               /\ Range(MissingLinesOf(r.out)) = Range(ReportedMissing)
               /\ MissingLinesOf(r.out) = SelectSeq(p, WasReported)
               /\ p = required => r.out = out /\ r.missing = missing

\* jal and sub are missing and reported in that order; with the list
\* reversed they are reported as sub, jal
C17_Witness ==
    /\ vpc = "done"
    /\ required = << Mn_jal, Mn_sub, Mn_add >>
    /\ listing = << Line_add >>
    /\ ReportedMissing = << Mn_jal, Mn_sub >>
    /\ MissingLinesOf(VerifyRecipe(listing, Reverse(required)).out)
           = << Mn_sub, Mn_jal >>
    /\ vexit = 1

(***************************************************************************)
(* Properties of the run on a processor that implements RV32I.             *)
(***************************************************************************)

\* C18: on a processor that implements RV32I, every ASSERT condition of
\* every test group is true of the values computed (the for and the while
\* loop end with sum 45, recursive_sum(10) returns 55, two consecutive auipc
\* results differ by 4), there is one computed condition for every ASSERT
\* site, and a run on which no operation misbehaved ends with
\* test_failed = 0, test_result = 0, test_passed equal to the number of
\* assertions executed (47 in part_003, 31 in test_rv32i.c), and main()
\* returning 0.
C18_CorrectProcessorPassesAll ==
    /\ \A reg \in Registries, g \in Groups :
           /\ Len(Computed[reg][g]) = Len(GroupAsserts(reg, g))
           /\ \A i \in 1..Len(Computed[reg][g]) : Computed[reg][g][i]
    /\ (pc = "done" /\ faults = 0) =>
           /\ test_failed = 0
           /\ test_result = 0
           /\ test_passed = executed
           /\ test_passed = (IF registry = "part_003" THEN 47 ELSE 31)
           /\ retval = 0

\* main() of part_003 has returned 0 after 47 passed assertions
C18_Witness ==
    /\ pc = "done"
    /\ registry = "part_003"
    /\ faults = 0
    /\ executed = 47
    /\ test_passed = 47
    /\ test_failed = 0
    /\ retval = 0

====
